---- MODULE Spec2Model ----
(***************************************************************************)
(* A model of server.js: the SPF include-chain resolver (parseSpfRecord,   *)
(* lookupSpfRecords), the range collector and matcher (collectAllIpRanges, *)
(* checkIpInRanges) and the two HTTP handlers (GET /api/spf/:domain and    *)
(* POST /api/check-ip), run by concurrent requests against one DNS zone.   *)
(*                                                                         *)
(* A JavaScript string is a sequence of symbols.  A symbol is one piece of *)
(* text that the program never splits: the keywords "v=spf1", "ip4:" and   *)
(* "include:", the blank " ", the "," that Array.prototype.toString puts   *)
(* between the chunks of a TXT record, and pieces of names and of address  *)
(* literals.  null is the empty sequence Null and a present optional value *)
(* x is Some(x) == <<x>>.                                                  *)
(*                                                                         *)
(* One action is one turn of the event loop: an HTTP handler from the      *)
(* arrival of the request to its first unresolved await, or one resolveTxt *)
(* callback together with every promise continuation it makes runnable.    *)
(***************************************************************************)
EXTENDS Integers, Sequences, FiniteSets, TLC

VARIABLES zone, strictNames, phase, request, stack, heap, issued, spfTree, thrown,
          allRanges, response

vars == <<zone, strictNames, phase, request, stack, heap, issued, spfTree, thrown,
          allRanges, response>>

-----------------------------------------------------------------------------
(* Bounds of the model *)

\* the number of names of the longest include chain of the zones
ChainLen == 12

\* the concurrent HTTP requests
Requests == {1, 2}

-----------------------------------------------------------------------------
(* Values *)

Null == <<>>
Some(x) == <<x>>

SP == " "
VSPF1 == "v=spf1"
IP4 == "ip4:"
INCLUDE == "include:"
COMMA == ","

\* Array.prototype.join: the strings of ss with sep between them
JoinWith(ss, sep) ==
    LET from[n \in 1..Len(ss)] ==
            IF n = Len(ss) THEN ss[n] ELSE ss[n] \o sep \o from[n + 1]
    IN  IF ss = <<>> THEN <<>> ELSE from[1]

\* F of the value x, x worked out once, before F goes on with it
Then(x, F(_)) == CHOOSE after \in {F(before) : before \in {x}} : TRUE

Max(S) == CHOOSE x \in S : \A y \in S : y <= x

Range(s) == {s[i] : i \in 1..Len(s)}

-----------------------------------------------------------------------------
(* parseSpfRecord *)

\* the last index of the run of non-blank symbols of s that index i lies
\* in: where a greedy [^\s]+ that has taken s[i] stops
RunEnd(s, i) ==
    CHOOSE j \in i..Len(s) :
        /\ \A n \in (i + 1)..j : s[n] # SP
        /\ j = Len(s) \/ s[j + 1] = SP

\* String.prototype.match(/<key>([^\s]+)/g): the matched substrings of s,
\* left to right, none overlapping one before it
MatchAll(key, s) ==
    LET from[i \in 1..(Len(s) + 1)] ==
            IF i > Len(s) THEN <<>>
            ELSE IF s[i] = key /\ i < Len(s) /\ s[i + 1] # SP
                 THEN <<SubSeq(s, i, RunEnd(s, i))>> \o from[RunEnd(s, i) + 1]
                 ELSE from[i + 1]
    IN  from[1]

\* String.prototype.replace(key, ''): s without its first occurrence of key
ReplaceFirst(s, key) ==
    IF key \in Range(s)
    THEN LET i == CHOOSE j \in 1..Len(s) : s[j] = key /\ \A k \in 1..(j - 1) : s[k] # key
         IN  SubSeq(s, 1, i - 1) \o SubSeq(s, i + 1, Len(s))
    ELSE s

\* matches.map(m => m.replace(key, ''))
StripAll(matches, key) == [i \in 1..Len(matches) |-> ReplaceFirst(matches[i], key)]

parseSpfRecord(recordStr) ==
    Then(recordStr, LAMBDA s :
        [ipv4 |-> Then(MatchAll(IP4, s), LAMBDA ipv4Matches : StripAll(ipv4Matches, IP4)),
         includes |-> Then(MatchAll(INCLUDE, s),
                           LAMBDA includeMatches : StripAll(includeMatches, INCLUDE))])

-----------------------------------------------------------------------------
(* SpfNode: the nodes of the tree lookupSpfRecords builds *)

MaxDepthReached == "Max depth reached"
CircularReference == "Circular reference detected"

\* the node of the early return of lookupSpfRecords
TerminalNode(domain, message) ==
    [domain |-> domain, error |-> Some(message), ipRanges |-> <<>>,
     children |-> <<>>, spfRecord |-> Null]

\* the result object the resolveTxt callback starts from
NewResult(domain) ==
    [domain |-> domain, ipRanges |-> <<>>, children |-> <<>>,
     error |-> Null, spfRecord |-> Null]

\* Array.prototype.toString of one TXT record (an array of chunks)
recordToString(record) == JoinWith(record, <<COMMA>>)

\* recordStr.includes('v=spf1')
IsSpf(recordStr) == VSPF1 \in Range(recordStr)


-----------------------------------------------------------------------------
(* The DNS transport: recursiveResolver.resolveTxt *)

A == <<"a">>
B == <<"b">>
C == <<"c">>
D == <<"d">>

\* a name with a label that is no host name label: the resolver of some
\* runtimes refuses it, the resolver of others sends the query
XN == <<"xn--">>

\* a request's "domain" that is not a string (a JSON number)
NonString == <<"#number">>

\* a name with a blank in it: "exam ple.com"
Blanked == <<"exam", SP, "ple.com">>

\* the name of n letters k: the n-th name of the include chain
K(n) == [j \in 1..n |-> "k"]

IsString(v) == v # NonString

\* resolveTxt throws, before any query is sent, when its name is not a
\* string (validateString) and, on a runtime that is strict about names
\* (strictNames: its binding returns an error code for the name and resolveTxt
\* throws it), when the name has a label that is no host name label
resolveTxtThrows(name) ==
    \/ ~IsString(name)
    \/ strictNames /\ "xn--" \in Range(name)

\* the message of the error resolveTxt throws
resolveTxtMessage(name) ==
    IF ~IsString(name) THEN "ERR_INVALID_ARG_TYPE" ELSE "ERR_INVALID_ARG_VALUE"

\* the (err, records) the callback of resolveTxt(name) is called with
Answer(name) ==
    IF name \in DOMAIN zone THEN zone[name]
    ELSE [err |-> Some("ENOTFOUND"), records |-> <<>>]

-----------------------------------------------------------------------------
(* lookupSpfRecords                                                        *)
(*                                                                         *)
(* A call of lookupSpfRecords that has reached resolveTxt is a frame; the  *)
(* frames of the calls a request is inside, outermost first, are its       *)
(* stack.  The frame on top waits for the callback of resolveTxt (pc =     *)
(* "resolveTxt"); each frame below it is inside its callback, at the await *)
(* of the call above it (pc = "await").  A Set is an entry of the          *)
(* request's heap and `visited` is its index there.                        *)
(*                                                                         *)
(* A machine m is what a turn of the event loop works on: the stack, the   *)
(* heap, the names resolveTxt was called with, and how the root promise    *)
(* stands: "pending", "fulfilled" with m.tree, "rejected" with m.message,  *)
(* or "abandoned": pending with nothing left that could settle it.         *)
(***************************************************************************)

maxDepth == 10

\* the early return one level later
EarlyReturn_OneDeeper(domain, depth, visitedSet) ==
    depth > maxDepth + 1 \/ domain \in visitedSet

\* the early return without its test of visited
EarlyReturn_DepthOnly(domain, depth, visitedSet) ==
    depth > maxDepth

\* line 33: the test of the early return
EarlyReturn(domain, depth, visitedSet) ==
    depth > maxDepth \/ domain \in visitedSet

\* the error of the early return that never says the depth
EarlyError_Circular(depth) == CircularReference

\* line 36: the error of the early return
EarlyError(depth) ==
    IF depth > maxDepth THEN MaxDepthReached ELSE CircularReference

\* one Set for every call that passes none: the Sets of all the requests in
\* one
DefaultVisited_Shared == UNION UNION {Range(heap[r]) : r \in Requests}

\* visited = new Set(): the Set of a call that passes none
DefaultVisited == {}

\* the parent's Set itself, no copy of it
CopySet_Shared(m, ref) == [heap |-> m.heap, ref |-> ref]

\* new Set(visited): a Set of its own with the elements of heap entry ref
CopySet(m, ref) ==
    [heap |-> Append(m.heap, m.heap[ref]), ref |-> Len(m.heap) + 1]

\* the heap without the Sets no frame of the stack refers to
Collect(h, st) ==
    SubSeq(h, 1, Max({0} \cup {st[j].visited : j \in 1..Len(st)}))

\* no `break`: the loop over the records goes on with the record after k
AfterRecord_NoBreak(records, k) == k + 1

\* `break`: the record index the for loop over the records goes on with once
\* the includes of record k are resolved
AfterRecord(records, k) == Len(records) + 1

RECURSIVE lookupSpfRecords(_, _, _, _)
RECURSIVE Resolve(_, _)
RECURSIVE NextInclude(_)
RECURSIVE NextRecord(_)

\* the promise of the call above the stack is rejected: the handler's await
\* throws when it is the root call; the await inside a callback throws
\* otherwise, which rejects the promise of that async callback, a promise
\* nobody holds, and leaves its resolve(result) uncalled
Reject(m, message) ==
    IF m.stack = <<>>
    THEN [m EXCEPT !.status = "rejected", !.message = message]
    ELSE [m EXCEPT !.status = "abandoned", !.message = message]

\* a call that sends its resolveTxt query twice
lookupSpfRecords_Twice(m, domain, depth, visited) ==
    IF EarlyReturn(domain, depth, m.heap[visited])
    THEN Resolve(m, TerminalNode(domain, EarlyError(depth)))
    ELSE LET added == [m EXCEPT !.heap[visited] = @ \cup {domain}]
         IN  IF resolveTxtThrows(domain)
             THEN Reject(added, resolveTxtMessage(domain))
             ELSE [added EXCEPT
                     !.issued = @ \o <<domain, domain>>,
                     !.stack = Append(@, [domain |-> domain, depth |-> depth,
                                          visited |-> visited, pc |-> "resolveTxt",
                                          result |-> NewResult(domain),
                                          records |-> <<>>, k |-> 0,
                                          includes |-> <<>>, i |-> 0])]

\* lookupSpfRecords(domain, depth, maxDepth, <the Set at visited>), called
\* from the frame on top of m.stack (from the handler when there is none)
lookupSpfRecords(m, domain, depth, visited) ==
    IF EarlyReturn(domain, depth, m.heap[visited])
    THEN Resolve(m, TerminalNode(domain, EarlyError(depth)))
    ELSE LET added == [m EXCEPT !.heap[visited] = @ \cup {domain}]
         IN  IF resolveTxtThrows(domain)
             THEN Reject(added, resolveTxtMessage(domain))
             ELSE [added EXCEPT
                     !.issued = Append(@, domain),
                     !.stack = Append(@, [domain |-> domain, depth |-> depth,
                                          visited |-> visited, pc |-> "resolveTxt",
                                          result |-> NewResult(domain),
                                          records |-> <<>>, k |-> 0,
                                          includes |-> <<>>, i |-> 0])]

\* the first node that is resolved goes to the handler, whatever calls are
\* still open
Resolve_ToHandler(m, node) == [m EXCEPT !.status = "fulfilled", !.tree = node]

\* the error of a child taken over by the node it is pushed to
Resolve_ErrorUp(m, node) ==
    IF m.stack = <<>>
    THEN [m EXCEPT !.status = "fulfilled", !.tree = node,
                   !.heap = Collect(@, m.stack)]
    ELSE LET top == Len(m.stack)
         IN  Then([m EXCEPT
                      !.stack[top].result.children = Append(@, node),
                      !.stack[top].result.error =
                          IF node.error # Null THEN node.error ELSE @,
                      !.stack[top].i = @ + 1,
                      !.heap = Collect(@, m.stack)],
                  NextInclude)

\* the promise of the call above the stack is fulfilled with node: the
\* handler goes on when it is the root call, the frame on top pushes the
\* node to its children and goes to its next include otherwise
Resolve(m, node) ==
    IF m.stack = <<>>
    THEN [m EXCEPT !.status = "fulfilled", !.tree = node,
                   !.heap = Collect(@, m.stack)]
    ELSE LET top == Len(m.stack)
         IN  Then([m EXCEPT
                      !.stack[top].result.children = Append(@, node),
                      !.stack[top].i = @ + 1,
                      !.heap = Collect(@, m.stack)],
                  NextInclude)

\* the loop over includes, given up once a child came back with an error
NextInclude_StopOnError(m) ==
    LET top == Len(m.stack)
        f == m.stack[top]
        failed == f.result.children # <<>>
                    /\ f.result.children[Len(f.result.children)].error # Null
    IN  IF f.i <= Len(f.includes) /\ ~failed
        THEN LET set == CopySet(m, f.visited)
             IN  Then([m EXCEPT !.heap = set.heap],
                      LAMBDA n : lookupSpfRecords(n, f.includes[f.i], f.depth + 1,
                                                  set.ref))
        ELSE Then([m EXCEPT !.stack[top].k = AfterRecord(f.records, f.k)], NextRecord)

\* the loop over includes of the frame on top, at index i
NextInclude(m) ==
    LET top == Len(m.stack)
        f == m.stack[top]
    IN  IF f.i <= Len(f.includes)
        THEN LET set == CopySet(m, f.visited)
             IN  Then([m EXCEPT !.heap = set.heap],
                      LAMBDA n : lookupSpfRecords(n, f.includes[f.i], f.depth + 1,
                                                  set.ref))
        ELSE Then([m EXCEPT !.stack[top].k = AfterRecord(f.records, f.k)], NextRecord)

\* the loop over records of the frame on top, at index k
NextRecord(m) ==
    LET top == Len(m.stack)
        f == m.stack[top]
    IN  IF f.k > Len(f.records)
        THEN Then([m EXCEPT !.stack = SubSeq(@, 1, top - 1)],
                  LAMBDA n : Resolve(n, f.result))
        ELSE Then(recordToString(f.records[f.k]), LAMBDA recordStr :
                 IF IsSpf(recordStr)
                 THEN Then(parseSpfRecord(recordStr), LAMBDA parsed :
                          Then([m EXCEPT
                                  !.stack[top].result.ipRanges = parsed.ipv4,
                                  !.stack[top].result.spfRecord = Some(recordStr),
                                  !.stack[top].includes = parsed.includes,
                                  !.stack[top].i = 1],
                               NextInclude))
                 ELSE Then([m EXCEPT !.stack[top].k = @ + 1], NextRecord))

\* the callback that resolves its result without the error it was called with
Callback_ErrorDropped(m, answer) ==
    LET top == Len(m.stack)
        f == m.stack[top]
    IN  IF answer.err # Null
        THEN Then([m EXCEPT !.stack = SubSeq(@, 1, top - 1)],
                  LAMBDA n : Resolve(n, f.result))
        ELSE Then([m EXCEPT !.stack[top].pc = "await",
                            !.stack[top].records = answer.records,
                            !.stack[top].k = 1],
                  NextRecord)

\* the callback that leaves its frame as one whose resolveTxt is still out
Callback_StillOut(m, answer) ==
    LET top == Len(m.stack)
        f == m.stack[top]
    IN  IF answer.err # Null
        THEN Then([m EXCEPT !.stack = SubSeq(@, 1, top - 1)],
                  LAMBDA n : Resolve(n, [f.result EXCEPT !.error = answer.err]))
        ELSE Then([m EXCEPT !.stack[top].records = answer.records,
                            !.stack[top].k = 1],
                  NextRecord)

\* the callback of resolveTxt of the frame on top, called with answer
Callback(m, answer) ==
    LET top == Len(m.stack)
        f == m.stack[top]
    IN  IF answer.err # Null
        THEN Then([m EXCEPT !.stack = SubSeq(@, 1, top - 1)],
                  LAMBDA n : Resolve(n, [f.result EXCEPT !.error = answer.err]))
        ELSE Then([m EXCEPT !.stack[top].pc = "await",
                            !.stack[top].records = answer.records,
                            !.stack[top].k = 1],
                  NextRecord)

-----------------------------------------------------------------------------
(* collectAllIpRanges, checkIpInRanges *)

\* lines 92-95: the entries of the node's own ranges
OwnRanges(tree) ==
    [j \in 1..Len(tree.ipRanges) |-> [range |-> tree.ipRanges[j], domain |-> tree.domain]]

\* the ranges of the node itself, none of its children
collectAllIpRanges_RootOnly(tree, ranges) == ranges \o OwnRanges(tree)

RECURSIVE collectAllIpRanges(_, _)
RECURSIVE forEachChild(_, _, _)

\* tree.children.forEach(child => collectAllIpRanges(child, ranges)), from
\* child j on
forEachChild(children, j, ranges) ==
    IF j > Len(children) THEN ranges
    ELSE forEachChild(children, j + 1, collectAllIpRanges(children[j], ranges))

\* the children first and the ranges of the node itself after them
collectAllIpRanges_ChildrenFirst(tree, ranges) ==
    forEachChild(tree.children, 1, ranges) \o OwnRanges(tree)

collectAllIpRanges(tree, ranges) ==
    forEachChild(tree.children, 1, ranges \o OwnRanges(tree))

\* what the address library reads a range literal as: a block of `bits`
\* leading bits of addr, or Null when the text is no address and no CIDR
ParseRange(range) ==
    IF range = <<"10.0.0.0/8">> THEN Some([addr |-> <<10, 0, 0, 0>>, bits |-> 8])
    ELSE IF range = <<"192.168.1.0/24">>
         THEN Some([addr |-> <<192, 168, 1, 0>>, bits |-> 24])
    ELSE IF range = <<"10.1.2.3">> THEN Some([addr |-> <<10, 1, 2, 3>>, bits |-> 32])
    ELSE Null

\* the bits of a block of `bits` leading bits that fall in octet o
BitsIn(bits, o) ==
    IF bits >= 8 * o THEN 8 ELSE IF bits <= 8 * (o - 1) THEN 0 ELSE bits - 8 * (o - 1)

\* ipRangeCheck(ip, range) of the ip-range-check package, for a string range:
\* equality with a single address, membership of a CIDR block, false for
\* text it cannot read
ipRangeCheck(ip, range) ==
    /\ ParseRange(range) # Null
    /\ LET block == ParseRange(range)[1]
       IN  \A o \in 1..4 :
              ip[o] \div (2 ^ (8 - BitsIn(block.bits, o)))
                = block.addr[o] \div (2 ^ (8 - BitsIn(block.bits, o)))

\* the loop given up at the first range that cannot be read, as a try
\* around the whole loop would
checkIpInRanges_StopAtInvalid(ip, ranges) ==
    LET from[j \in 1..(Len(ranges) + 1)] ==
            IF j > Len(ranges) \/ ParseRange(ranges[j].range) = Null THEN <<>>
            ELSE (IF ipRangeCheck(ip, ranges[j].range) THEN <<ranges[j]>> ELSE <<>>)
                    \o from[j + 1]
    IN  from[1]

\* the entries of ranges that ipRangeCheck accepts, in their order; the
\* catch of the loop has nothing to catch, ipRangeCheck answering false for
\* a range it cannot read
checkIpInRanges(ip, ranges) ==
    LET from[j \in 1..(Len(ranges) + 1)] ==
            IF j > Len(ranges) THEN <<>>
            ELSE (IF ipRangeCheck(ip, ranges[j].range) THEN <<ranges[j]>> ELSE <<>>)
                    \o from[j + 1]
    IN  from[1]

-----------------------------------------------------------------------------
(* The HTTP handlers *)

\* the symbols made of the characters [a-zA-Z0-9.-] only
NameSymbols == {"a", "b", "c", "d", "k", "xn--", "exam", "ple.com", "-all", "10.1.2.3"}

\* line 129: domain && /^[a-zA-Z0-9.-]+$/.test(domain)
DomainFormatOk(domain) ==
    domain # <<>> /\ \A j \in 1..Len(domain) : domain[j] \in NameSymbols

\* line 149: ipRegex.test(ip), ip the sequence of the numbers between its dots
ipRegexTest(ip) ==
    Len(ip) = 4 /\ \A o \in 1..4 : ip[o] \in 0..255

NoResponse == [status |-> 0]

Json(status, body) == [status |-> status, body |-> body]

\* the machine of a handler before its call of lookupSpfRecords(domain)
Fresh ==
    [stack |-> <<>>, heap |-> <<DefaultVisited>>, issued |-> <<>>,
     status |-> "pending", tree |-> Null, message |-> ""]

\* lines 134 and 156-164: what the handler sends once the tree is there
Success(req, tree) ==
    IF req.method = "GET" THEN Json(200, tree)
    ELSE Then(collectAllIpRanges(tree, <<>>), LAMBDA ranges :
             Then(checkIpInRanges(req.ip, ranges), LAMBDA matches :
                 Json(200, [ip |-> req.ip, domain |-> req.domain, matches |-> matches,
                            isAuthorized |-> Len(matches) > 0])))

\* an await that gives up at once: a lookup still out at the end of the turn
\* is answered as a failure
Await_Expiring(r, req, m) ==
    /\ stack' = [stack EXCEPT ![r] = m.stack]
    /\ heap' = [heap EXCEPT ![r] = m.heap]
    /\ issued' = [issued EXCEPT ![r] = m.issued]
    /\ spfTree' = [spfTree EXCEPT ![r] = IF m.status = "fulfilled" THEN Some(m.tree) ELSE Null]
    /\ allRanges' = [allRanges EXCEPT ![r] =
                        IF m.status = "fulfilled" /\ req.method = "POST"
                        THEN Some(collectAllIpRanges(m.tree, <<>>)) ELSE Null]
    /\ thrown' = [thrown EXCEPT ![r] = IF m.status \in {"rejected", "abandoned"}
                                       THEN Some(m.message) ELSE Null]
    /\ phase' = [phase EXCEPT ![r] = IF m.status = "abandoned" THEN "hung" ELSE "answered"]
    /\ response' = [response EXCEPT ![r] =
                    CASE m.status = "fulfilled" -> Success(req, m.tree)
                    []   m.status = "rejected" -> Json(500, [error |-> m.message])
                    []   m.status = "pending" -> Json(500, [error |-> "ETIMEOUT"])
                    []   OTHER -> NoResponse]

\* the handler of request r, inside `await lookupSpfRecords(domain)`, after a
\* turn of the event loop has left the machine as m
Await(r, req, m) ==
    /\ stack' = [stack EXCEPT ![r] = m.stack]
    /\ heap' = [heap EXCEPT ![r] = m.heap]
    /\ issued' = [issued EXCEPT ![r] = m.issued]
    /\ spfTree' = [spfTree EXCEPT ![r] = IF m.status = "fulfilled" THEN Some(m.tree) ELSE Null]
    /\ allRanges' = [allRanges EXCEPT ![r] =
                        IF m.status = "fulfilled" /\ req.method = "POST"
                        THEN Some(collectAllIpRanges(m.tree, <<>>)) ELSE Null]
    /\ thrown' = [thrown EXCEPT ![r] = IF m.status \in {"rejected", "abandoned"}
                                       THEN Some(m.message) ELSE Null]
    /\ phase' = [phase EXCEPT ![r] =
                    CASE m.status = "pending" -> "resolving"
                    []   m.status = "abandoned" -> "hung"
                    []   OTHER -> "answered"]
    /\ response' = [response EXCEPT ![r] =
                    CASE m.status = "fulfilled" -> Success(req, m.tree)
                    []   m.status = "rejected" -> Json(500, [error |-> m.message])
                    []   OTHER -> NoResponse]

\* a handler that answers before it calls lookupSpfRecords
Refuse(r, message) ==
    /\ phase' = [phase EXCEPT ![r] = "answered"]
    /\ response' = [response EXCEPT ![r] = Json(400, [error |-> message])]
    /\ UNCHANGED <<stack, heap, issued, spfTree, thrown, allRanges>>

\* GET /api/spf/:domain
GetSpf(r, domain) ==
    /\ phase[r] = "idle"
    /\ request' = [request EXCEPT ![r] = [method |-> "GET", domain |-> domain, ip |-> Null]]
    /\ IF ~DomainFormatOk(domain)
       THEN Refuse(r, "Invalid domain format")
       ELSE \E m \in {lookupSpfRecords(Fresh, domain, 0, 1)} : Await(r, request'[r], m)
    /\ UNCHANGED <<zone, strictNames>>

\* POST /api/check-ip
CheckIp(r, ip, domain) ==
    /\ phase[r] = "idle"
    /\ request' = [request EXCEPT ![r] = [method |-> "POST", domain |-> domain, ip |-> ip]]
    /\ IF ip = Null \/ domain = Null
       THEN Refuse(r, "IP and domain are required")
       ELSE IF ~ipRegexTest(ip)
       THEN Refuse(r, "Invalid IP address format")
       ELSE \E m \in {lookupSpfRecords(Fresh, domain, 0, 1)} : Await(r, request'[r], m)
    /\ UNCHANGED <<zone, strictNames>>

\* the callback of the resolveTxt request r waits for, and everything the
\* promises it settles make runnable
ResolveTxtCallback(r) ==
    /\ phase[r] = "resolving"
    /\ \E m \in {Callback([stack |-> stack[r], heap |-> heap[r], issued |-> issued[r],
                           status |-> "pending", tree |-> Null, message |-> ""],
                          Answer(stack[r][Len(stack[r])].domain))} :
          Await(r, request[r], m)
    /\ UNCHANGED <<zone, strictNames, request>>

-----------------------------------------------------------------------------
(* The zones and the requests the model is run on *)

Net10 == <<"10.0.0.0/8">>
Net192 == <<"192.168.1.0/24">>
Host10 == <<"10.1.2.3">>
NotARange == <<"not-a-range">>

\* the words of a record, a blank between them
Text(words) == JoinWith(words, <<SP>>)

\* "v=spf1 ip4:<range> ... include:<name> ... -all"
SpfText(ranges, includes) ==
    Text(<<<<VSPF1>>>>
         \o [j \in 1..Len(ranges) |-> <<IP4>> \o ranges[j]]
         \o [j \in 1..Len(includes) |-> <<INCLUDE>> \o includes[j]]
         \o <<<<"-all">>>>)

\* a TXT record of one chunk
Txt(text) == <<text>>

Found(records) == [err |-> Null, records |-> records]
Failed(code) == [err |-> Some(code), records |-> <<>>]

Verification == Txt(<<"site-verification=1">>)

\* a includes b, b includes a and itself
ZoneCycle ==
    (A :> Found(<<Txt(SpfText(<<Net10>>, <<B>>))>>))
    @@ (B :> Found(<<Txt(SpfText(<<Net192>>, <<A, B>>))>>))

\* a includes b and c, and each of them includes d
ZoneDiamond ==
    (A :> Found(<<Txt(SpfText(<<>>, <<B, C>>))>>))
    @@ (B :> Found(<<Txt(SpfText(<<Host10>>, <<D>>))>>))
    @@ (C :> Found(<<Txt(SpfText(<<>>, <<D>>))>>))
    @@ (D :> Found(<<Txt(SpfText(<<NotARange, Net10>>, <<>>))>>))

\* a has three records, the second and the third SPF records; its includes
\* fail (b), close a cycle (a) and have no SPF record (c)
ZoneSiblings ==
    (A :> Found(<<Verification, Txt(SpfText(<<Net192>>, <<B, A, C>>)),
                  Txt(SpfText(<<Net10>>, <<D>>))>>))
    @@ (B :> Failed("ESERVFAIL"))
    @@ (C :> Found(<<Verification>>))
    @@ (D :> Found(<<Txt(SpfText(<<Net10>>, <<>>))>>))

\* a includes a name a strict resolver refuses, then b; the record of b comes in
\* two chunks
ZoneOdd ==
    (A :> Found(<<Txt(SpfText(<<Net10>>, <<XN, B>>))>>))
    @@ (B :> Found(<<<<Text(<<<<VSPF1>>, <<INCLUDE>> \o C>>),
                       <<SP>> \o Text(<<<<IP4>> \o Net192, <<"-all">>>>)>>>>))
    @@ (C :> Found(<<>>))

\* k includes kk, kk includes kkk, ... up to the name of ChainLen letters
ZoneChain ==
    [name \in {K(n) : n \in 1..ChainLen} |->
        IF Len(name) < ChainLen
        THEN Found(<<Txt(SpfText(<<>>, <<K(Len(name) + 1)>>))>>)
        ELSE Found(<<Txt(SpfText(<<Net10>>, <<>>))>>)]

\* k includes kk, ... and the name of maxDepth + 1 letters includes k again:
\* the include that closes the ring is called at depth maxDepth + 1
ZoneRing ==
    [name \in {K(n) : n \in 1..(maxDepth + 1)} |->
        Found(<<Txt(SpfText(<<>>, <<IF Len(name) <= maxDepth THEN K(Len(name) + 1)
                                    ELSE K(1)>>))>>)]

\* the record of a has "-ip4:10.0.0.0/8" (a range under the qualifier -), an
\* include under the qualifier ? and a token "exists:ip4:10.1.2.3"
ZoneQualified ==
    (A :> Found(<<Txt(Text(<<<<VSPF1>>, <<"-", IP4>> \o Net10, <<"?", INCLUDE>> \o B,
                            <<"exists:", IP4>> \o Host10, <<"-all">>>>))>>))
    @@ (B :> Found(<<Txt(SpfText(<<Net192>>, <<>>))>>))

Zones == {ZoneCycle, ZoneDiamond, ZoneSiblings, ZoneOdd, ZoneChain, ZoneRing,
          ZoneQualified}

\* the :domain of a GET request: Express hands over a non-empty string
GetDomains == {A, K(1), XN, Blanked}

\* the ip and the domain of the body of a POST request; Null is a missing
\* field
PostIps == {<<10, 1, 2, 3>>, <<999, 1, 1, 1>>, Null}
PostDomains == {A, Blanked, NonString, Null}

-----------------------------------------------------------------------------
(* The specification *)

Init ==
    /\ zone \in Zones
    /\ strictNames \in BOOLEAN
    /\ phase = [r \in Requests |-> "idle"]
    /\ request = [r \in Requests |-> [method |-> "none", domain |-> Null, ip |-> Null]]
    /\ stack = [r \in Requests |-> <<>>]
    /\ heap = [r \in Requests |-> <<>>]
    /\ issued = [r \in Requests |-> <<>>]
    /\ spfTree = [r \in Requests |-> Null]
    /\ allRanges = [r \in Requests |-> Null]
    /\ thrown = [r \in Requests |-> Null]
    /\ response = [r \in Requests |-> NoResponse]

Next ==
    \E r \in Requests :
        \/ \E domain \in GetDomains : GetSpf(r, domain)
        \/ \E ip \in PostIps, domain \in PostDomains : CheckIp(r, ip, domain)
        \/ ResolveTxtCallback(r)

Spec == Init /\ [][Next]_vars

\* every resolveTxt that was sent calls back
FairSpec == Spec /\ \A r \in Requests : WF_vars(ResolveTxtCallback(r))

\* the name whose lookups may stay without an answer
Slow == B

\* request r waits for the callback of a resolveTxt of the name Slow
WaitsForSlow(r) ==
    phase[r] = "resolving" /\ stack[r][Len(stack[r])].domain = Slow

\* the callback of a resolveTxt of any other name
PromptCallback(r) == ~WaitsForSlow(r) /\ ResolveTxtCallback(r)

\* every resolveTxt calls back, but for the name Slow: a resolveTxt of Slow
\* may call back and may as well never do
StallSpec == Spec /\ \A r \in Requests : WF_vars(PromptCallback(r))

-----------------------------------------------------------------------------
(* Trees, for the properties below *)

RECURSIVE Positions(_)
\* the positions of the nodes of tree t: each the sequence of child indices
\* that leads from the root to the node
Positions(t) ==
    {<<>>} \cup UNION {{<<j>> \o p : p \in Positions(t.children[j])} :
                           j \in 1..Len(t.children)}

RECURSIVE NodeAt(_, _)
NodeAt(t, p) == IF p = <<>> THEN t ELSE NodeAt(t.children[p[1]], Tail(p))

\* the domains of the proper ancestors of the node at position p
AncestorDomains(t, p) == {NodeAt(t, SubSeq(p, 1, n)).domain : n \in 0..(Len(p) - 1)}

\* the node was made by the early return of lookupSpfRecords
IsTerminal(node, message) == node = TerminalNode(node.domain, message)

\* lookupSpfRecords called resolveTxt for the node
WasLookedUp(node) ==
    node.error \notin {Some(MaxDepthReached), Some(CircularReference)}

\* the request has its tree: its call of lookupSpfRecords has returned
Returned(r) == spfTree[r] # Null
Tree(r) == spfTree[r][1]

-----------------------------------------------------------------------------
(* C1 *)

\* the calls request r is inside are nested one include deeper each, none
\* deeper than maxDepth, none for a domain of a call it is nested in
BoundedPath(r) ==
    \A j \in 1..Len(stack[r]) :
        /\ stack[r][j].depth = j - 1
        /\ stack[r][j].depth <= maxDepth
        /\ \A n \in 1..(j - 1) : stack[r][n].domain # stack[r][j].domain

-----------------------------------------------------------------------------
(* C2 *)

\* C2: a call of lookupSpfRecords, at a depth within maxDepth, for a domain
\* that is among its ancestors on the path from the root returns the
\* terminal node "Circular reference detected" (no ranges, no children, no
\* record) and calls no resolveTxt: the calls that did reach resolveTxt have
\* pairwise distinct domains along every path, in the calls a request is
\* inside and in the tree it gets.
C2_CyclesCutOff ==
    \A r \in Requests :
        /\ \A j, n \in 1..Len(stack[r]) : j # n => stack[r][j].domain # stack[r][n].domain
        /\ Returned(r) =>
              \A p \in Positions(Tree(r)) :
                 LET node == NodeAt(Tree(r), p)
                 IN  /\ (Len(p) <= maxDepth /\ node.domain \in AncestorDomains(Tree(r), p))
                           => IsTerminal(node, CircularReference)
                     /\ WasLookedUp(node) => node.domain \notin AncestorDomains(Tree(r), p)

\* a includes b and b includes a: the tree of a is there and its second a is
\* the circular node
C2_Witness ==
    \E r \in Requests :
        /\ Returned(r)
        /\ Tree(r).domain = A
        /\ \E p \in Positions(Tree(r)) :
              /\ Len(p) = 2
              /\ NodeAt(Tree(r), SubSeq(p, 1, 1)).domain = B
              /\ NodeAt(Tree(r), p) = TerminalNode(A, CircularReference)

-----------------------------------------------------------------------------
(* C3 *)

\* C3, as claimed: no node of a returned tree lies more than maxDepth
\* include steps below the root.
C3_DepthWithinMax ==
    \A r \in Requests :
        Returned(r) => \A p \in Positions(Tree(r)) : Len(p) <= maxDepth

\* C3, amended: no node of a returned tree lies more than maxDepth + 1
\* include steps below the root; the nodes resolveTxt was called for lie at
\* most maxDepth steps below it, and every node at maxDepth + 1 steps is a
\* terminal node "Max depth reached".
C3_DepthWithinMaxPlusOne ==
    \A r \in Requests :
        Returned(r) =>
            \A p \in Positions(Tree(r)) :
                /\ Len(p) <= maxDepth + 1
                /\ WasLookedUp(NodeAt(Tree(r), p)) => Len(p) <= maxDepth
                /\ Len(p) = maxDepth + 1
                      => IsTerminal(NodeAt(Tree(r), p), MaxDepthReached)

\* the tree of a chain of more than maxDepth + 1 names has a node
\* maxDepth + 1 steps below its root
C3_Witness ==
    \E r \in Requests :
        /\ Returned(r)
        /\ \E p \in Positions(Tree(r)) :
              Len(p) = maxDepth + 1 /\ NodeAt(Tree(r), p).domain = K(maxDepth + 2)

-----------------------------------------------------------------------------
(* C4 *)

\* the request has a domain that is a string and does not match
\* [a-zA-Z0-9.-]+, or an ip that is no dotted-decimal IPv4 address
InvalidInput(req) ==
    \/ IsString(req.domain) /\ ~DomainFormatOk(req.domain)
    \/ req.method = "POST" /\ ~ipRegexTest(req.ip)

\* C4: on both endpoints, a request with an invalid domain or an invalid ip
\* is answered with a client error, and resolveTxt is never called for it.
C4_InvalidInputRefused ==
    \A r \in Requests :
        (request[r].method # "none" /\ InvalidInput(request[r]))
            => /\ phase[r] = "answered"
               /\ response[r].status = 400
               /\ issued[r] = <<>>

-----------------------------------------------------------------------------
(* C5 *)

\* the domains of the children of a node, in their order
ChildDomains(node) == [j \in 1..Len(node.children) |-> node.children[j].domain]

\* C5: in a returned tree, the children of every node with an SPF record are
\* one node per include target of that record, in the order of the record,
\* whether or not a child, or a node below a child, ended with a DNS error, a
\* cycle error or a max-depth error.
C5_SiblingsKept ==
    \A r \in Requests :
        Returned(r) =>
            \A p \in Positions(Tree(r)) :
                LET node == NodeAt(Tree(r), p)
                IN  node.spfRecord # Null
                        => ChildDomains(node) = parseSpfRecord(node.spfRecord[1]).includes

\* a returned tree whose root has a child that failed in DNS, then a circular
\* child, then a child that was resolved
C5_Witness ==
    \E r \in Requests :
        /\ Returned(r)
        /\ Len(Tree(r).children) = 3
        /\ Tree(r).children[1].error = Some("ESERVFAIL")
        /\ Tree(r).children[2].error = Some(CircularReference)
        /\ Tree(r).children[3].error = Null
        /\ ChildDomains(Tree(r)) = <<B, A, C>>

-----------------------------------------------------------------------------
(* C6 *)

\* the Set of frame j of request r
VisitedOf(r, j) == heap[r][stack[r][j].visited]

\* C6: the visited Set is local to the path.  The Set of every call a
\* request is inside holds the domains of the calls it is nested in and its
\* own, and nothing a call below it or a sibling branch has added; no two
\* calls share a Set.  In a returned tree a node is "Circular reference
\* detected" only when its domain is the domain of one of its ancestors, so
\* a domain reached through two unrelated branches is looked up in each.
C6_VisitedPathLocal ==
    \A r \in Requests :
        /\ \A j \in 1..Len(stack[r]) :
              /\ VisitedOf(r, j) = {stack[r][n].domain : n \in 1..j}
              /\ \A n \in 1..(j - 1) : stack[r][n].visited # stack[r][j].visited
        /\ Returned(r) =>
              \A p \in Positions(Tree(r)) :
                 NodeAt(Tree(r), p).error = Some(CircularReference)
                    => NodeAt(Tree(r), p).domain \in AncestorDomains(Tree(r), p)

\* the diamond: a includes b and c, both include d; the tree of a is there,
\* resolveTxt was called for d in each branch and both nodes of d carry its
\* record
C6_Witness ==
    \E r \in Requests :
        /\ Returned(r)
        /\ issued[r] = <<A, B, D, C, D>>
        /\ ChildDomains(Tree(r)) = <<B, C>>
        /\ \A j \in 1..2 :
              /\ ChildDomains(Tree(r).children[j]) = <<D>>
              /\ Tree(r).children[j].children[1].error = Null
              /\ Tree(r).children[j].children[1].spfRecord # Null

-----------------------------------------------------------------------------
(* C7 *)

\* the index of the first record whose text contains "v=spf1", 0 when there
\* is none
SelectedIndex(records) ==
    LET spf == {k \in 1..Len(records) : IsSpf(recordToString(records[k]))}
    IN  IF spf = {} THEN 0 ELSE CHOOSE k \in spf : \A n \in spf : k <= n

\* C7: a node whose lookup came back with records has as spfRecord the text
\* of the first record, in received order, that contains "v=spf1"; its
\* ipRanges and its children are those of that record and of no other; it
\* has no record, no range and no child when no record contains "v=spf1".
C7_FirstSpfRecordOnly ==
    \A r \in Requests :
        Returned(r) =>
            \A p \in Positions(Tree(r)) :
                LET node == NodeAt(Tree(r), p)
                    records == Answer(node.domain).records
                    k == SelectedIndex(records)
                IN  (WasLookedUp(node) /\ node.error = Null) =>
                        IF k = 0
                        THEN node = NewResult(node.domain)
                        ELSE /\ node.spfRecord = Some(recordToString(records[k]))
                             /\ node.ipRanges
                                  = parseSpfRecord(recordToString(records[k])).ipv4
                             /\ ChildDomains(node)
                                  = parseSpfRecord(recordToString(records[k])).includes

\* a has a record without "v=spf1", then two SPF records: the tree of a is
\* there, with the range and the three includes of the second record and
\* nothing of the third
C7_Witness ==
    \E r \in Requests :
        /\ zone = ZoneSiblings
        /\ Returned(r)
        /\ Tree(r).domain = A
        /\ SelectedIndex(zone[A].records) = 2
        /\ Len(zone[A].records) = 3
        /\ Tree(r).ipRanges = <<Net192>>
        /\ issued[r] = <<A, B, C>>

-----------------------------------------------------------------------------
(* C8 *)

\* the {range, domain} entries the nodes of the tree declare
Declared(tree) ==
    {[range |-> NodeAt(tree, p).ipRanges[j], domain |-> NodeAt(tree, p).domain] :
        <<p, j>> \in {<<q, n>> \in Positions(tree) \X (1..3) :
                         n <= Len(NodeAt(tree, q).ipRanges)}}

\* request r is a POST /api/check-ip that was answered with its result
Checked(r) ==
    request[r].method = "POST" /\ phase[r] = "answered" /\ response[r].status = 200

\* C8: in the answer to a POST /api/check-ip with valid input, isAuthorized
\* is true exactly when matches is not empty, and the entries of matches are
\* exactly the {range, domain} that some node of the resolved tree, the root
\* or any node below it, declares and that contain the ip.
C8_MatchesWholeTree ==
    \A r \in Requests :
        Checked(r) =>
            /\ response[r].body.isAuthorized = (response[r].body.matches # <<>>)
            /\ Range(response[r].body.matches)
                 = {e \in Declared(Tree(r)) : ipRangeCheck(request[r].ip, e.range)}
            /\ response[r].body.ip = request[r].ip
            /\ response[r].body.domain = request[r].domain

\* the diamond, asked for 10.1.2.3: a itself declares no range, and the
\* answer is authorized by the host of b and by the net of d, not by the
\* text of d that is no range
C8_Witness ==
    \E r \in Requests :
        /\ Checked(r)
        /\ request[r].ip = <<10, 1, 2, 3>>
        /\ Tree(r).ipRanges = <<>>
        /\ response[r].body.isAuthorized
        /\ Range(response[r].body.matches)
             = {[range |-> Host10, domain |-> B], [range |-> Net10, domain |-> D]}
        /\ [range |-> NotARange, domain |-> D] \in Declared(Tree(r))

-----------------------------------------------------------------------------
(* C9 *)

RECURSIVE Alone(_, _, _)
\* the tree of domain, depth includes below the root and under the domains
\* of path, worked out from the answers of the zone and from nothing else
Alone(domain, depth, path) ==
    IF depth > maxDepth THEN TerminalNode(domain, MaxDepthReached)
    ELSE IF domain \in path THEN TerminalNode(domain, CircularReference)
    ELSE IF Answer(domain).err # Null
         THEN [NewResult(domain) EXCEPT !.error = Answer(domain).err]
    ELSE LET records == Answer(domain).records
             k == SelectedIndex(records)
         IN  IF k = 0 THEN NewResult(domain)
             ELSE LET text == recordToString(records[k])
                      parsed == parseSpfRecord(text)
                  IN  [domain |-> domain, error |-> Null, spfRecord |-> Some(text),
                       ipRanges |-> parsed.ipv4,
                       children |-> [j \in 1..Len(parsed.includes) |->
                                        Alone(parsed.includes[j], depth + 1,
                                              path \cup {domain})]]

\* C9: whatever the other requests do, before, during or after it, for the
\* same domain or for another, the tree a request gets is the tree of its
\* domain worked out alone from the DNS answers; no node of it is "Circular
\* reference detected" because of a domain another request visited.
C9_RequestsIndependent ==
    \A r \in Requests :
        Returned(r) => Tree(r) = Alone(request[r].domain, 0, {})

\* one request has its tree of a while another one, for a too, is two calls
\* deep in its own lookup
C9_Witness ==
    \E r, q \in Requests :
        /\ r # q
        /\ Returned(r)
        /\ request[q].domain = request[r].domain
        /\ phase[q] = "resolving"
        /\ Len(stack[q]) >= 2
        /\ \E p \in Positions(Tree(r)) : NodeAt(Tree(r), p).error = Some(CircularReference)

-----------------------------------------------------------------------------
(* C10 *)

\* C10: on both endpoints, once an exception was raised while a request was
\* served, in the root call of lookupSpfRecords, in its DNS callback or in
\* the resolution of a nested include, the request is eventually answered
\* with a 500 response that carries the message of the exception.
C10_FailuresAnswered ==
    \A r \in Requests :
        (thrown[r] # Null)
            ~> /\ phase[r] = "answered"
               /\ thrown[r] # Null
               /\ response[r] = Json(500, [error |-> thrown[r][1]])

-----------------------------------------------------------------------------
(* C11 *)

\* C11: a call of lookupSpfRecords entered with depth > maxDepth calls no
\* resolveTxt and returns the terminal node "Max depth reached" (no ranges,
\* no children, no record), also when its domain is in visited: every call
\* that reached resolveTxt has a depth within maxDepth, and every node of a
\* returned tree more than maxDepth steps below the root is that terminal
\* node, whether or not its domain is the domain of an ancestor.  The tree
\* of a chain of distinct names longer than maxDepth + 1 has the node for
\* the name after the last one looked up, and resolveTxt was called for the
\* first maxDepth + 1 names of the chain and for nothing else.
C11_MaxDepthFirst ==
    \A r \in Requests :
        /\ \A j \in 1..Len(stack[r]) : stack[r][j].depth <= maxDepth
        /\ Returned(r) =>
              \A p \in Positions(Tree(r)) :
                 Len(p) > maxDepth => IsTerminal(NodeAt(Tree(r), p), MaxDepthReached)
        /\ (Returned(r) /\ zone = ZoneChain /\ request[r].domain = K(1)) =>
              /\ \E p \in Positions(Tree(r)) :
                    NodeAt(Tree(r), p) = TerminalNode(K(maxDepth + 2), MaxDepthReached)
              /\ issued[r] = [n \in 1..(maxDepth + 1) |-> K(n)]

\* the ring: the tree of k is there, and its node maxDepth + 1 steps below
\* the root, for k again, says "Max depth reached"
C11_Witness ==
    \E r \in Requests :
        /\ zone = ZoneRing
        /\ Returned(r)
        /\ \E p \in Positions(Tree(r)) :
              /\ Len(p) = maxDepth + 1
              /\ NodeAt(Tree(r), p).domain = K(1)
              /\ K(1) \in AncestorDomains(Tree(r), p)
              /\ NodeAt(Tree(r), p).error = Some(MaxDepthReached)

-----------------------------------------------------------------------------
(* C12 *)

RECURSIVE Lookups(_)
\* the domains resolveTxt was called for to build the node and the nodes
\* below it, the node first, then child after child, each with all that is
\* below it
Lookups(node) ==
    IF WasLookedUp(node)
    THEN <<node.domain>>
            \o JoinWith([j \in 1..Len(node.children) |-> Lookups(node.children[j])], <<>>)
    ELSE <<>>

\* the same for the calls request r is inside: each call, then the children
\* it has so far
LookupsSoFar(r) ==
    JoinWith([j \in 1..Len(stack[r]) |->
                 <<stack[r][j].domain>>
                    \o JoinWith([n \in 1..Len(stack[r][j].result.children) |->
                                    Lookups(stack[r][j].result.children[n])], <<>>)],
             <<>>)

\* the calls of request r whose resolveTxt has not called back
InFlight(r) == {j \in 1..Len(stack[r]) : stack[r][j].pc = "resolveTxt"}

\* C12: the includes of a node are resolved one after the other.  At every
\* moment at most one resolveTxt of a request is out, the one of its
\* innermost call, and the resolveTxt calls made so far are, in their order,
\* each call the request is inside followed by everything below the children
\* it already has: the lookup for include i + 1 comes after all the lookups
\* of the subtree of include i.
C12_SiblingsSequential ==
    \A r \in Requests :
        /\ Cardinality(InFlight(r)) <= 1
        /\ phase[r] = "resolving" => InFlight(r) = {Len(stack[r])}
        /\ phase[r] = "resolving" => issued[r] = LookupsSoFar(r)
        /\ Returned(r) => issued[r] = Lookups(Tree(r))

\* the diamond: the lookup of c, the second include of a, is out, and the
\* subtree of b, the first include, is there with its d
C12_Witness ==
    \E r \in Requests :
        /\ phase[r] = "resolving"
        /\ zone = ZoneDiamond
        /\ Len(stack[r]) = 2
        /\ stack[r][2].domain = C
        /\ stack[r][2].pc = "resolveTxt"
        /\ ChildDomains(stack[r][1].result) = <<B>>
        /\ ChildDomains(stack[r][1].result.children[1]) = <<D>>
        /\ issued[r] = <<A, B, D, C>>

-----------------------------------------------------------------------------
(* C13 *)

RECURSIVE Populated(_)
\* the node and every node below it have one child per include of their
\* record
Populated(node) ==
    /\ node.spfRecord # Null
          => ChildDomains(node) = parseSpfRecord(node.spfRecord[1]).includes
    /\ node.spfRecord = Null => node.children = <<>>
    /\ \A j \in 1..Len(node.children) : Populated(node.children[j])

\* C13: a node goes to its caller with everything below it in place.  Every
\* child a call has pushed so far, and the tree the handler gets, is
\* populated down to its leaves; once the handler has the tree the request
\* is answered, has no call open and no resolveTxt out, and from then on
\* neither the tree nor the answer changes and no resolveTxt is called for
\* the request.
C13_ReturnedWhenPopulated ==
    /\ [](\A r \in Requests :
            /\ \A j \in 1..Len(stack[r]) :
                  \A n \in 1..Len(stack[r][j].result.children) :
                     Populated(stack[r][j].result.children[n])
            /\ Returned(r) =>
                  /\ Populated(Tree(r))
                  /\ stack[r] = <<>>
                  /\ phase[r] = "answered"
                  /\ response[r].status = 200)
    /\ [][\A r \in Requests :
            Returned(r) => /\ spfTree'[r] = spfTree[r]
                           /\ response'[r] = response[r]
                           /\ issued'[r] = issued[r]]_vars

\* the tree of a is there, with the failed include and with b and the node
\* below b, while the other request is in the middle of its lookups
C13_Witness ==
    \E r, q \in Requests :
        /\ zone = ZoneOdd
        /\ Returned(r)
        /\ ChildDomains(Tree(r)) = <<XN, B>>
        /\ Len(Tree(r).children[2].children) = 1
        /\ response[r].status = 200
        /\ phase[q] = "resolving"
        /\ Len(issued[q]) >= 2

-----------------------------------------------------------------------------
(* C14 *)

\* the node of a lookup that failed with err
FailedNode(domain, err) == [NewResult(domain) EXCEPT !.error = err]

\* C14: in a returned tree, a node whose TXT lookup failed carries the
\* error of the lookup and no range, no child and no record, and a node
\* whose lookup came back without any record containing "v=spf1" carries no
\* range, no child, no record and no error.  No lookup is made beneath
\* either: a call that is waiting for the node of an include is a call whose
\* own lookup succeeded with an SPF record.
C14_FailedAndEmptyLookups ==
    \A r \in Requests :
        /\ \A j \in 1..Len(stack[r]) :
              stack[r][j].pc = "await" =>
                  /\ Answer(stack[r][j].domain).err = Null
                  /\ SelectedIndex(Answer(stack[r][j].domain).records) # 0
        /\ Returned(r) =>
              \A p \in Positions(Tree(r)) :
                 LET node == NodeAt(Tree(r), p)
                     answer == Answer(node.domain)
                 IN  WasLookedUp(node) =>
                        /\ answer.err # Null => node = FailedNode(node.domain, answer.err)
                        /\ (answer.err = Null /\ SelectedIndex(answer.records) = 0)
                              => node = NewResult(node.domain)

\* a returned tree with a node whose lookup failed and a node whose lookup
\* found a record, none of them an SPF record
C14_Witness ==
    \E r \in Requests :
        /\ Returned(r)
        /\ \E p, q \in Positions(Tree(r)) :
              /\ NodeAt(Tree(r), p) = FailedNode(B, Some("ESERVFAIL"))
              /\ NodeAt(Tree(r), q) = NewResult(C)
              /\ Answer(C).records = <<Verification>>

-----------------------------------------------------------------------------
(* C15 *)

RECURSIVE Flattened(_)
\* the {range, domain} of the ranges of the node, in their order, then those
\* of its first child and of all below it, then those of its second child, ...
Flattened(node) ==
    [j \in 1..Len(node.ipRanges) |-> [range |-> node.ipRanges[j], domain |-> node.domain]]
       \o JoinWith([j \in 1..Len(node.children) |-> Flattened(node.children[j])], <<>>)

RECURSIVE RangeCount(_, _)
\* the number of ip4 values of the nodes of tree at the positions ps
RangeCount(tree, ps) ==
    IF ps = {} THEN 0
    ELSE LET p == CHOOSE q \in ps : TRUE
         IN  Len(NodeAt(tree, p).ipRanges) + RangeCount(tree, ps \ {p})

\* C15: collectAllIpRanges(tree) is the pre-order, depth-first flattening of
\* the tree: the ranges of a node, in declared order and under the domain of
\* the node, before the entries of its children, the children in stored
\* order; it has one entry for each ip4 value of each node, the same value
\* as often as it is declared, and is empty for a tree without ranges.
C15_PreOrderFlattening ==
    \A r \in Requests :
        allRanges[r] # Null =>
            /\ allRanges[r][1] = Flattened(Tree(r))
            /\ Len(allRanges[r][1]) = RangeCount(Tree(r), Positions(Tree(r)))

\* the diamond: the host of b, then the two ranges of the d below b, then
\* the two ranges of the d below c once more
C15_Witness ==
    \E r \in Requests :
        /\ allRanges[r] # Null
        /\ allRanges[r][1] = <<[range |-> Host10, domain |-> B],
                               [range |-> NotARange, domain |-> D],
                               [range |-> Net10, domain |-> D],
                               [range |-> NotARange, domain |-> D],
                               [range |-> Net10, domain |-> D]>>

-----------------------------------------------------------------------------
(* C16 *)

\* C16: checkIpInRanges(ip, ranges) is the subsequence of ranges, in their
\* order, of the entries whose range, a single address or a CIDR block,
\* contains ip.  An entry whose range is no address and no CIDR block is left
\* out and raises nothing (the request is answered with the matches, not with
\* an error), and the entries before it and after it are evaluated.
C16_MatchesInOrder ==
    \A r \in Requests :
        allRanges[r] # Null =>
            /\ Checked(r)
            /\ response[r].body.matches
                 = SelectSeq(allRanges[r][1],
                             LAMBDA e : /\ ParseRange(e.range) # Null
                                        /\ ipRangeCheck(request[r].ip, e.range))

\* the flattened ranges have a text that is no range, with a match before it
\* and a match after it, and both are among the matches
C16_Witness ==
    \E r \in Requests :
        /\ allRanges[r] # Null
        /\ \E j \in 2..(Len(allRanges[r][1]) - 1) :
              /\ ParseRange(allRanges[r][1][j].range) = Null
              /\ allRanges[r][1][j - 1] \in Range(response[r].body.matches)
              /\ allRanges[r][1][j + 1] \in Range(response[r].body.matches)
        /\ Len(response[r].body.matches) = 3

-----------------------------------------------------------------------------
(* C17 *)

\* the values of the blank-delimited tokens of s of the form <key><value>,
\* in their order: the tokens that begin with key and go on after it
TokenValues(key, s) ==
    LET from[i \in 1..(Len(s) + 1)] ==
            IF i > Len(s) THEN <<>>
            ELSE IF s[i] = SP THEN from[i + 1]
            ELSE (IF s[i] = key /\ RunEnd(s, i) > i
                  THEN <<SubSeq(s, i + 1, RunEnd(s, i))>> ELSE <<>>)
                     \o from[RunEnd(s, i) + 1]
    IN  from[1]

\* C17: parseSpfRecord(record) gives as ipv4 the values of the
\* blank-delimited tokens ip4:<value> and as includes the values of the
\* tokens include:<value>, in order of appearance; a token of another form,
\* such as one that has "ip4:" or "include:" after a qualifier or after
\* another mechanism name, gives nothing, and a record without such tokens
\* gives two empty sequences.  Stated of the ranges and the children of
\* every node with a record, which are what parseSpfRecord gave for it.
C17_TokensOnly ==
    \A r \in Requests :
        Returned(r) =>
            \A p \in Positions(Tree(r)) :
                LET node == NodeAt(Tree(r), p)
                IN  node.spfRecord # Null =>
                        /\ node.ipRanges = TokenValues(IP4, node.spfRecord[1])
                        /\ ChildDomains(node) = TokenValues(INCLUDE, node.spfRecord[1])

-----------------------------------------------------------------------------
(* C18 *)

\* the includes of the call that waits for the node of the innermost call
\* of request r which come after the include of that innermost call
LaterSiblings(r) ==
    IF Len(stack[r]) < 2 THEN {}
    ELSE LET parent == stack[r][Len(stack[r]) - 1]
         IN  {parent.includes[n] : n \in (parent.i + 1)..Len(parent.includes)}

\* C18, as claimed: a lookup that never completes stalls its own subtree
\* only: when the resolveTxt of an include stays out for ever, resolveTxt is
\* still called for the includes that come after it in the same record.
C18_OnlySubtreeStalled ==
    \A r \in Requests :
        <>[]WaitsForSlow(r) => <>(WaitsForSlow(r) /\ LaterSiblings(r) \subseteq Range(issued[r]))

\* what of request r the other requests and the passing of time may not
\* change
Progress(r) == <<phase[r], stack[r], issued[r], spfTree[r], thrown[r], response[r]>>

\* C18, amended: there is no timeout.  A request with a resolveTxt out is
\* not answered and has no tree, the resolveTxt is the one of its innermost
\* call, and as long as that callback does not run nothing of the request
\* moves: no node is produced, no later include is looked up, no expiry
\* makes a failure node or an answer.  A lookup that never completes stalls
\* the whole resolution of its request, and that request only.
C18_WholeRequestStalled ==
    /\ [](\A r \in Requests :
            (issued[r] # <<>> /\ ~Returned(r) /\ thrown[r] = Null) =>
                /\ phase[r] = "resolving"
                /\ InFlight(r) = {Len(stack[r])}
                /\ response[r] = NoResponse)
    /\ [][\A r \in Requests :
            phase[r] = "resolving" => (ResolveTxtCallback(r) \/ Progress(r)' = Progress(r))]_vars

\* a waits for its first include, with two more includes to go, while
\* the other request, which came later, has its tree
C18_Witness ==
    \E r, q \in Requests :
        /\ WaitsForSlow(r)
        /\ Cardinality(LaterSiblings(r)) = 2
        /\ issued[r] = <<A, B>>
        /\ Returned(q)
        /\ Len(issued[q]) > 2

-----------------------------------------------------------------------------
(* C19 *)

\* the node has an error or a record, not both, and with an error it has no
\* range and no child
ErrorOrRecord(node) ==
    /\ node.error # Null
          => node.spfRecord = Null /\ node.ipRanges = <<>> /\ node.children = <<>>
    /\ node.spfRecord # Null => node.error = Null

\* C19: no node of a returned tree has both an error and a record: a node
\* with an error (of the DNS lookup, "Circular reference detected" or "Max
\* depth reached") has no record, no range and no child, and a node with a
\* record has no error.
C19_ErrorExcludesRecord ==
    \A r \in Requests :
        Returned(r) =>
            \A p \in Positions(Tree(r)) : ErrorOrRecord(NodeAt(Tree(r), p))

\* a returned tree whose root has a record and, as children, a node with a
\* DNS error and a node with the circular error
C19_Witness ==
    \E r \in Requests :
        /\ Returned(r)
        /\ Tree(r).spfRecord # Null
        /\ Tree(r).error = Null
        /\ \E j, n \in 1..Len(Tree(r).children) :
              /\ Tree(r).children[j].error = Some(CircularReference)
              /\ Tree(r).children[n].error # Null
              /\ WasLookedUp(Tree(r).children[n])

-----------------------------------------------------------------------------
(* C20 *)

\* the positions of the nodes of the tree resolveTxt was called for
LookedUp(tree) == {p \in Positions(tree) : WasLookedUp(NodeAt(tree, p))}

\* how often name is among the resolveTxt calls of request r
TimesIssued(r, name) == Cardinality({n \in 1..Len(issued[r]) : issued[r][n] = name})

\* C20: when a request has its tree, resolveTxt was called once for each
\* node that is neither "Max depth reached" nor "Circular reference
\* detected" and not at all for those: as many calls as such nodes, name by
\* name, and on the path from the root to any node at most maxDepth + 1 of
\* them.
C20_OneLookupPerNode ==
    \A r \in Requests :
        Returned(r) =>
            /\ Len(issued[r]) = Cardinality(LookedUp(Tree(r)))
            /\ \A name \in Range(issued[r]) \cup {NodeAt(Tree(r), p).domain :
                                                     p \in Positions(Tree(r))} :
                  TimesIssued(r, name)
                    = Cardinality({p \in LookedUp(Tree(r)) : NodeAt(Tree(r), p).domain = name})
            /\ \A p \in Positions(Tree(r)) :
                  Cardinality({n \in 0..Len(p) : SubSeq(p, 1, n) \in LookedUp(Tree(r))})
                     <= maxDepth + 1

\* a tree of four nodes, one of them circular, built with three lookups, one
\* of which failed
C20_Witness ==
    \E r \in Requests :
        /\ Returned(r)
        /\ Cardinality(Positions(Tree(r))) = 4
        /\ Cardinality(LookedUp(Tree(r))) = 3
        /\ Len(issued[r]) = 3
        /\ \E p \in Positions(Tree(r)) : NodeAt(Tree(r), p).error = Some("ESERVFAIL")

====
